---- MODULE Spec2Model ----
(***************************************************************************)
(* Model of descwl_shear_sims/layout/layout.py: the Layout class, its      *)
(* constructor and get_shifts.                                             *)
(*                                                                         *)
(* Numbers.  pixel_scale is a whole number of arcsec per pixel, coadd_dim  *)
(* and buff whole numbers of pixels, density a whole number per arcmin^2.  *)
(* An area (and a Poisson mean, which is area * density) is kept exactly,  *)
(* as a record [n, pi] standing for the real number                        *)
(*        n / AreaUnit            when pi = FALSE                          *)
(*        n * PI / AreaUnit       when pi = TRUE                           *)
(* so that no rounding is introduced by the model.                         *)
(*                                                                         *)
(* Optional values.  Python's None is None == <<>>, a present value v is   *)
(* Some(v) == <<v>>.  Arithmetic on None is an evaluation error here as it *)
(* is a TypeError in Python.                                               *)
(*                                                                         *)
(* Object attributes.  self is a record holding exactly the attributes     *)
(* that have been assigned.                                                *)
(***************************************************************************)
EXTENDS Integers, Sequences, FiniteSets

VARIABLES
    phase,           \* "unconfigured" | "configured" | "failed" (constructor raised)
    args,            \* the arguments the constructor was called with
    self,            \* the attributes of the Layout object
    init_exc,        \* the exception the constructor raised, or "none"
    warned,          \* number of warnings.warn calls made by the constructor
    provider_calls,  \* calls made to make_coadd_dm_wcs / make_coadd_dm_wcs_simple
    rng,             \* the caller's random source: number of requests it has served
    last             \* record of the latest get_shifts call

vars == <<phase, args, self, init_exc, warned, provider_calls, rng, last>>

None == <<>>
Some(v) == <<v>>

\* ---------------------------------------------------------------- bounds
\* get_shifts is called only while the random state has served at most
\* MaxRng requests
MaxRng == 2
\* largest value a Poisson draw returns in the model
MaxNobj == 2

\* ---------------------------------------------------------------- inputs
LayoutNames == {"random", "random_disk", "hex", "grid", "pair", "bogus"}
CoaddDims == {None, Some(1), Some(10), Some(12), Some(60)}
Buffs == {0, 5}
PixelScales == {0, 1, 2}
WorldOrigins == {"WORLD_ORIGIN", "origin_b"}
Densities == {-1, 0, 1, 20}
Seps == {None, Some("sep_a"), Some("sep_b")}

\* ------------------------------------------------------------- constants
\* imported from ..constants; the code only forwards them
GRID_SPACING == "GRID_SPACING"
HEX_SPACING == "HEX_SPACING"

\* ------------------------------------------------------------ arithmetic
\* areas are counted in units of 1/(4*60*60) arcmin^2: (p/60)^2 for a whole
\* or half number of pixel-arcsec p is a whole number of these units
AreaUnit == 4 * 60 * 60

Zero == [n |-> 0, pi |-> FALSE]
One == [n |-> AreaUnit, pi |-> FALSE]

\* x * d for an area x and a whole number d
times(x, d) == [n |-> x.n * d, pi |-> x.pi]

\* x < 1.  For pi = TRUE this is n * PI < AreaUnit; PI is irrational, so
\* equality never occurs, and AreaUnit / PI = 4583.66.. while
\* AreaUnit * 113 / 355 = 4583.66.., so 355/113 decides it for every whole n.
lt_one(x) == IF x.pi THEN x.n * 355 < AreaUnit * 113 ELSE x.n < AreaUnit

\* x <= 0
nonpositive(x) == x.n <= 0

\* Python's max(x, 1): the first argument unless the second is larger
max_1(x) == IF lt_one(x) THEN One ELSE x

\* ------------------------------------------------- geometry provider (wcs)
\* make_coadd_dm_wcs(coadd_dim, pixel_scale=pixel_scale): the call as made,
\* and what it gives back.  The provider takes the side length of the field
\* as a whole number of pixels; None is a TypeError in it.  The wcs and bbox
\* it returns are opaque values determined by the call.
make_coadd_dm_wcs(coadd_dim, pixel_scale) ==
    LET call == [fn |-> "make_coadd_dm_wcs", coadd_dim |-> coadd_dim,
                 pixel_scale |-> pixel_scale]
    IN  [call |-> call,
         exc |-> IF coadd_dim = None THEN "TypeError" ELSE "none",
         wcs |-> [wcs_of |-> call],
         bbox |-> [bbox_of |-> call]]

make_coadd_dm_wcs_simple(coadd_dim, pixel_scale) ==
    LET call == [fn |-> "make_coadd_dm_wcs_simple", coadd_dim |-> coadd_dim,
                 pixel_scale |-> pixel_scale]
    IN  [call |-> call,
         exc |-> IF coadd_dim = None THEN "TypeError" ELSE "none",
         wcs |-> [wcs_of |-> call],
         bbox |-> [bbox_of |-> call]]

\* ------------------------------------------------------------ constructor
\* The exceptions are all ValueError in the code; they are told apart by the
\* place that raises them:
\*   "MissingParameter"  "Please input `coadd_dim` for ... layout", "send sep= ..."
\*   "InvalidLayout"     "layout_name can only be ...", "bad layout: ..."
\*   "InvalidGeometry"   "nonpositive area for layout ..."

\* the area of the 'random' layout, coadd_dim a number:
\* ((coadd_dim - 2*buff)*pixel_scale/60)**2, or (2*pixel_scale/60)**2 with a
\* warning when coadd_dim - 2*buff < 2
random_area(coadd_dim, buff, pixel_scale) ==
    IF (coadd_dim - 2 * buff) < 2
    THEN [warned |-> 1,
          area |-> [n |-> 4 * (2 * pixel_scale) * (2 * pixel_scale), pi |-> FALSE]]
    ELSE [warned |-> 0,
          area |-> [n |-> 4 * ((coadd_dim - 2 * buff) * pixel_scale)
                            * ((coadd_dim - 2 * buff) * pixel_scale),
                    pi |-> FALSE]]

\* the area of the 'random_disk' layout, coadd_dim a number: pi*radius**2 with
\* radius = (coadd_dim/2. - buff)*pixel_scale/60, or radius = 2.*pixel_scale/60
\* with a warning when coadd_dim - 2*buff < 2.
\* radius**2 = ((coadd_dim - 2*buff)*pixel_scale)**2 / AreaUnit, and
\* (2*pixel_scale/60)**2 = 4 * (2*pixel_scale)**2 / AreaUnit.
random_disk_area(coadd_dim, buff, pixel_scale) ==
    IF (coadd_dim - 2 * buff) < 2
    THEN [warned |-> 1,
          area |-> [n |-> 4 * (2 * pixel_scale) * (2 * pixel_scale), pi |-> TRUE]]
    ELSE [warned |-> 0,
          area |-> [n |-> ((coadd_dim - 2 * buff) * pixel_scale)
                        * ((coadd_dim - 2 * buff) * pixel_scale),
                    pi |-> TRUE]]

\* init_unknown_layout without its raise: the constructor carries on
init_unknown_layout_no_raise ==
    [exc |-> "none", return |-> FALSE, warned |-> 0, attrs |-> <<>>]

\* the else branch of the constructor's if/elif chain over layout_name:
\* what the chain over the names ends in for a name that is none of the five
init_unknown_layout ==
    [exc |-> "InvalidLayout", return |-> FALSE, warned |-> 0, attrs |-> <<>>]

\* the constructor's if/elif chain over layout_name: the exception raised
\* (or "none"), whether the constructor returns there, the warnings made and
\* the attributes assigned in the chain
init_chain(layout_name, coadd_dim, buff, pixel_scale) ==
    IF layout_name = "random" THEN
        IF coadd_dim = None
        THEN [exc |-> "MissingParameter", return |-> FALSE, warned |-> 0,
              attrs |-> <<>>]
        ELSE LET r == random_area(coadd_dim[1], buff, pixel_scale)
             IN  [exc |-> "none", return |-> FALSE, warned |-> r.warned,
                  attrs |-> [area |-> r.area]]
    ELSE IF layout_name = "random_disk" THEN
        IF coadd_dim = None
        THEN [exc |-> "MissingParameter", return |-> FALSE, warned |-> 0,
              attrs |-> <<>>]
        ELSE LET r == random_disk_area(coadd_dim[1], buff, pixel_scale)
             IN  [exc |-> "none", return |-> FALSE, warned |-> r.warned,
                  attrs |-> [area |-> r.area]]
    ELSE IF layout_name = "hex" THEN
        [exc |-> "none", return |-> FALSE, warned |-> 0, attrs |-> [area |-> Zero]]
    ELSE IF layout_name = "grid" THEN
        [exc |-> "none", return |-> FALSE, warned |-> 0, attrs |-> [area |-> Zero]]
    ELSE IF layout_name = "pair" THEN
        [exc |-> "none", return |-> TRUE, warned |-> 0, attrs |-> <<>>]
    ELSE init_unknown_layout

\* f extended by the fields of g
with(f, g) ==
    [k \in DOMAIN f \cup DOMAIN g |-> IF k \in DOMAIN g THEN g[k] ELSE f[k]]

\* Layout.__init__: the object's attributes, the exception raised (or
\* "none"), the warnings made and the calls made to the geometry provider.
\* world_origin is a parameter the body never reads.
Layout__init__(layout_name, coadd_dim, buff, pixel_scale, world_origin, simple_coadd_bbox) ==
    LET self0 == [pixel_scale |-> pixel_scale, layout_name |-> layout_name]
        c == init_chain(layout_name, coadd_dim, buff, pixel_scale)
        self1 == with(with(self0, c.attrs), [coadd_dim |-> coadd_dim, buff |-> buff])
        g == IF simple_coadd_bbox
             THEN make_coadd_dm_wcs_simple(coadd_dim, pixel_scale)
             ELSE make_coadd_dm_wcs(coadd_dim, pixel_scale)
    IN  IF c.exc # "none" \/ c.return
        THEN [self |-> with(self0, c.attrs), exc |-> c.exc, warned |-> c.warned,
              provider_calls |-> <<>>]
        ELSE IF g.exc # "none"
        THEN [self |-> self1, exc |-> g.exc, warned |-> c.warned,
              provider_calls |-> <<g.call>>]
        ELSE [self |-> with(self1, [wcs |-> g.wcs, bbox |-> g.bbox]),
              exc |-> "none", warned |-> c.warned,
              provider_calls |-> <<g.call>>]

\* ------------------------------------------------------- random source
\* rng.poisson(lam): one request served; the value is 0 for lam = 0 and
\* otherwise whatever the source draws (draw)
poisson(r, lam, draw) ==
    [rng |-> r + 1, value |-> IF lam.n = 0 THEN 0 ELSE draw]

\* ------------------------------------------------------ shift generators
\* Each generator is given the random source and keyword arguments and
\* returns the shifts; the model keeps the call as made, the random source
\* after it and the returned array (its length n where the arguments fix it).
\* pair: two shifts; grid and hex: a lattice, no random request;
\* random and random_disk: size points, two uniform requests per point.
get_pair_shifts(r, sep, pixel_scale) ==
    LET call == [fn |-> "get_pair_shifts", sep |-> sep, pixel_scale |-> pixel_scale]
    IN  [call |-> call, rng |-> r, shifts |-> [shifts_of |-> call, n |-> 2]]

get_grid_shifts(r, dim, buff, pixel_scale, spacing) ==
    LET call == [fn |-> "get_grid_shifts", dim |-> dim, buff |-> buff,
                 pixel_scale |-> pixel_scale, spacing |-> spacing]
    IN  [call |-> call, rng |-> r, shifts |-> [shifts_of |-> call]]

get_hex_shifts(r, dim, buff, pixel_scale, spacing) ==
    LET call == [fn |-> "get_hex_shifts", dim |-> dim, buff |-> buff,
                 pixel_scale |-> pixel_scale, spacing |-> spacing]
    IN  [call |-> call, rng |-> r, shifts |-> [shifts_of |-> call]]

get_random_shifts(r, dim, buff, pixel_scale, size) ==
    LET call == [fn |-> "get_random_shifts", dim |-> dim, buff |-> buff,
                 pixel_scale |-> pixel_scale, size |-> size]
    IN  [call |-> call, rng |-> r + 2 * size,
         shifts |-> [shifts_of |-> call, n |-> size]]

get_random_disk_shifts(r, dim, buff, pixel_scale, size) ==
    LET call == [fn |-> "get_random_disk_shifts", dim |-> dim, buff |-> buff,
                 pixel_scale |-> pixel_scale, size |-> size]
    IN  [call |-> call, rng |-> r + 2 * size,
         shifts |-> [shifts_of |-> call, n |-> size]]

\* ------------------------------------------------------------ get_shifts
\* The outcome of a call: the object and the random source after it, the
\* exception raised (or "none"), the Poisson draws made (each with the mean
\* asked for and the value drawn), the generator calls made and the value
\* returned (None when it raised).
raise(s, r, exc) ==
    [self |-> s, rng |-> r, exc |-> exc, poisson |-> <<>>, gen_calls |-> <<>>,
     ret |-> None]

return(s, draws, g) ==
    [self |-> s, rng |-> g.rng, exc |-> "none", poisson |-> draws,
     gen_calls |-> <<g.call>>, ret |-> Some(g.shifts)]

\* nobj_mean without the density != 0 case
nobj_mean_no_zero_case(area, density) ==
    max_1(times(area, density))

\* nobj_mean without the max(.., 1)
nobj_mean_no_floor(area, density) ==
    IF density # 0 THEN times(area, density) ELSE Zero

\* nobj_mean: max(self.area * density, 1) if density != 0, else 0.0
nobj_mean(area, density) ==
    IF density # 0 THEN max_1(times(area, density)) ELSE Zero

\* the 'pair' branch
get_shifts_pair(s, r, sep) ==
    IF sep = None
    THEN raise(s, r, "MissingParameter")
    ELSE return(s, <<>>, get_pair_shifts(r, sep[1], s.pixel_scale))

\* the 'grid' branch keeping the spacing it used on the object
get_shifts_grid_keeps_sep(s, r, sep) ==
    LET sep1 == IF sep = None THEN GRID_SPACING ELSE sep[1]
    IN  return(with(s, [sep |-> sep1]), <<>>,
               get_grid_shifts(r, s.coadd_dim, s.buff, s.pixel_scale, sep1))

\* the 'grid' branch
get_shifts_grid(s, r, sep) ==
    LET sep1 == IF sep = None THEN GRID_SPACING ELSE sep[1]
    IN  return(s, <<>>, get_grid_shifts(r, s.coadd_dim, s.buff, s.pixel_scale, sep1))

\* the 'hex' branch with the grid's default spacing
get_shifts_hex_grid_default(s, r, sep) ==
    LET sep1 == IF sep = None THEN GRID_SPACING ELSE sep[1]
    IN  return(s, <<>>, get_hex_shifts(r, s.coadd_dim, s.buff, s.pixel_scale, sep1))

\* the 'hex' branch
get_shifts_hex(s, r, sep) ==
    LET sep1 == IF sep = None THEN HEX_SPACING ELSE sep[1]
    IN  return(s, <<>>, get_hex_shifts(r, s.coadd_dim, s.buff, s.pixel_scale, sep1))

\* the 'random' branch with the count drawn before the area is looked at
get_shifts_random_draw_first(s, r, density, draw) ==
    LET lam == nobj_mean(s.area, density)
        p == poisson(r, lam, draw)
    IN  IF nonpositive(s.area)
        THEN raise(s, p.rng, "InvalidGeometry")
        ELSE return(s, <<[lam |-> lam, value |-> p.value]>>,
                    get_random_shifts(p.rng, s.coadd_dim, s.buff, s.pixel_scale, p.value))

\* the 'random' branch; draw is what the source draws if asked
get_shifts_random(s, r, density, draw) ==
    IF nonpositive(s.area)
    THEN raise(s, r, "InvalidGeometry")
    ELSE LET lam == nobj_mean(s.area, density)
             p == poisson(r, lam, draw)
         IN  return(s, <<[lam |-> lam, value |-> p.value]>>,
                    get_random_shifts(p.rng, s.coadd_dim, s.buff, s.pixel_scale, p.value))

\* the 'random_disk' branch
get_shifts_random_disk(s, r, density, draw) ==
    IF nonpositive(s.area)
    THEN raise(s, r, "InvalidGeometry")
    ELSE LET lam == nobj_mean(s.area, density)
             p == poisson(r, lam, draw)
         IN  return(s, <<[lam |-> lam, value |-> p.value]>>,
                    get_random_disk_shifts(p.rng, s.coadd_dim, s.buff, s.pixel_scale, p.value))

\* Layout.get_shifts(rng, density, sep)
get_shifts(s, r, density, sep, draw) ==
    IF s.layout_name = "pair" THEN get_shifts_pair(s, r, sep)
    ELSE IF s.layout_name = "grid" THEN get_shifts_grid(s, r, sep)
    ELSE IF s.layout_name = "hex" THEN get_shifts_hex(s, r, sep)
    ELSE IF s.layout_name = "random" THEN get_shifts_random(s, r, density, draw)
    ELSE IF s.layout_name = "random_disk" THEN get_shifts_random_disk(s, r, density, draw)
    ELSE raise(s, r, "InvalidLayout")

\* ----------------------------------------------------------- state machine
NoCall == [called |-> FALSE]

Init ==
    /\ phase = "unconfigured"
    /\ args = <<>>
    /\ self = <<>>
    /\ init_exc = "none"
    /\ warned = 0
    /\ provider_calls = <<>>
    /\ rng \in {0, 1}
    /\ last = NoCall

\* Layout(layout_name, coadd_dim, buff, pixel_scale, world_origin, simple_coadd_bbox)
Construct ==
    /\ phase = "unconfigured"
    /\ \E layout_name \in LayoutNames, coadd_dim \in CoaddDims, buff \in Buffs,
          pixel_scale \in PixelScales, world_origin \in WorldOrigins,
          simple_coadd_bbox \in BOOLEAN :
          LET o == Layout__init__(layout_name, coadd_dim, buff, pixel_scale,
                                  world_origin, simple_coadd_bbox)
          IN  /\ args' = [layout_name |-> layout_name, coadd_dim |-> coadd_dim,
                          buff |-> buff, pixel_scale |-> pixel_scale,
                          world_origin |-> world_origin,
                          simple_coadd_bbox |-> simple_coadd_bbox]
              /\ self' = o.self
              /\ init_exc' = o.exc
              /\ warned' = o.warned
              /\ provider_calls' = o.provider_calls
              /\ phase' = IF o.exc = "none" THEN "configured" ELSE "failed"
    /\ UNCHANGED <<rng, last>>

\* layout.get_shifts(rng, density, sep) on the constructed object
GetShifts ==
    /\ phase = "configured"
    /\ rng <= MaxRng
    /\ \E density \in Densities, sep \in Seps, draw \in 0..MaxNobj :
          LET o == get_shifts(self, rng, density, sep, draw)
          IN  /\ self' = o.self
              /\ rng' = o.rng
              /\ last' = [called |-> TRUE, density |-> density, sep |-> sep,
                          self_before |-> self, rng_before |-> rng,
                          exc |-> o.exc, poisson |-> o.poisson,
                          gen_calls |-> o.gen_calls, ret |-> o.ret]
    /\ UNCHANGED <<phase, args, init_exc, warned, provider_calls>>

Next == Construct \/ GetShifts

Spec == Init /\ [][Next]_vars

\* ------------------------------------------------------------ properties
Kinds == {"pair", "grid", "hex", "random", "random_disk"}
RandomKinds == {"random", "random_disk"}
Constructed == phase = "configured"
Called == last.called
\* coadd_dim - 2*buff of the constructor's arguments, coadd_dim a number
span == args.coadd_dim[1] - 2 * args.buff
\* the one generator call of the latest get_shifts call
gen_call == last.gen_calls[1]

\* C1: a constructor call with coadd_dim = None and a layout_name among
\* 'random', 'random_disk', 'grid', 'hex' raises the missing-parameter error
\* and makes no call to the geometry provider.
C1_MissingCoaddDim ==
    (phase # "unconfigured" /\ args.coadd_dim = None
        /\ args.layout_name \in Kinds \ {"pair"})
    => (phase = "failed" /\ init_exc = "MissingParameter" /\ provider_calls = <<>>)

\* C2: a constructed Layout has one of the five layout names, a constructor
\* call with any other name raises InvalidLayout, and no get_shifts call
\* ends in the 'bad layout' error.
C2_KnownKind ==
    /\ Constructed => self.layout_name \in Kinds
    /\ (phase # "unconfigured" /\ args.layout_name \notin Kinds)
          => (phase = "failed" /\ init_exc = "InvalidLayout")
    /\ Called => last.exc # "InvalidLayout"

\* a get_shifts call has run to its end on a constructed 'hex' Layout
C2_Witness ==
    Constructed /\ Called /\ self.layout_name = "hex" /\ last.exc = "none"

\* C3: the constructor called with 'random' and a coadd_dim never raises;
\* it warns exactly when coadd_dim - 2*buff < 2, area is the square of
\* (max(coadd_dim - 2*buff, 2) * pixel_scale / 60), and the dim and buff a
\* later get_shifts hands to the generator span 2 pixels in the clamped case.
C3_RandomClamp ==
    (phase # "unconfigured" /\ args.layout_name = "random" /\ args.coadd_dim # None)
    => LET s2 == IF span < 2 THEN 2 ELSE span
       IN  /\ Constructed
           /\ warned = (IF span < 2 THEN 1 ELSE 0)
           /\ self.area = [n |-> 4 * (s2 * args.pixel_scale) * (s2 * args.pixel_scale),
                           pi |-> FALSE]
           /\ (Called /\ last.exc = "none")
                 => gen_call.dim[1] - 2 * gen_call.buff = s2

\* C4: a constructed 'random_disk' Layout has area pi * (radius *
\* pixel_scale / 60)^2 with radius = max(coadd_dim - 2*buff, 2) / 2 pixels,
\* and the constructor warned exactly when coadd_dim - 2*buff < 2.
C4_DiskArea ==
    (Constructed /\ self.layout_name = "random_disk")
    => LET s2 == IF span < 2 THEN 2 ELSE span
       IN  /\ warned = (IF span < 2 THEN 1 ELSE 0)
           /\ self.area = [n |-> (s2 * args.pixel_scale) * (s2 * args.pixel_scale),
                           pi |-> TRUE]

\* the latest get_shifts call asked for no object: one Poisson draw of mean
\* 0, a generator asked for 0 points, an empty array returned, no error
NoObjects ==
    /\ last.exc = "none"
    /\ Len(last.poisson) = 1
    /\ last.poisson[1].lam = Zero
    /\ last.poisson[1].value = 0
    /\ Len(last.gen_calls) = 1
    /\ gen_call.size = 0
    /\ last.ret # None
    /\ last.ret[1].n = 0

\* C5 as stated: get_shifts with density = 0 on any constructed 'random' or
\* 'random_disk' Layout asks for no object and raises nothing.
C5_DensityZero_AnyPlanner ==
    (Called /\ self.layout_name \in RandomKinds /\ last.density = 0) => NoObjects

\* C5: get_shifts with density = 0 on a constructed 'random' or 'random_disk'
\* Layout of positive area asks for no object and raises nothing, whatever
\* the random source; on one of area <= 0 it raises InvalidGeometry.
C5_DensityZero ==
    (Called /\ self.layout_name \in RandomKinds /\ last.density = 0)
    => IF nonpositive(self.area)
       THEN last.exc = "InvalidGeometry" /\ last.ret = None
       ELSE NoObjects

\* density = 0 on a 'random_disk' Layout of positive area, the random
\* source having served requests before
C5_Witness ==
    /\ Called /\ self.layout_name = "random_disk" /\ last.density = 0
    /\ ~nonpositive(self.area) /\ last.rng_before > 1 /\ NoObjects

\* C6: no step taken after construction changes the attributes of the
\* Layout object.
C6_Immutable == [][Constructed => self' = self]_vars

\* 'grid' called without sep has fallen back on GRID_SPACING, and the
\* attributes are those before the call
C6_Witness ==
    /\ Called /\ self.layout_name = "grid" /\ last.sep = None
    /\ last.exc = "none" /\ gen_call.spacing = GRID_SPACING
    /\ self = last.self_before

\* C7: with sep = None, 'pair' raises MissingParameter and returns nothing,
\* 'grid' and 'hex' call their generator with GRID_SPACING / HEX_SPACING;
\* with sep given, each of the three hands exactly that value to its generator.
C7_Separation ==
    (Called /\ self.layout_name \in {"pair", "grid", "hex"})
    => LET k == self.layout_name
       IN  IF k = "pair" /\ last.sep = None
           THEN last.exc = "MissingParameter" /\ last.ret = None
                /\ last.gen_calls = <<>>
           ELSE /\ last.exc = "none"
                /\ Len(last.gen_calls) = 1
                /\ last.ret # None /\ last.ret[1].shifts_of = gen_call
                /\ k = "pair" => (gen_call.fn = "get_pair_shifts"
                                  /\ gen_call.sep = last.sep[1])
                /\ k = "grid" => (gen_call.fn = "get_grid_shifts"
                                  /\ gen_call.spacing =
                                       IF last.sep = None THEN GRID_SPACING
                                       ELSE last.sep[1])
                /\ k = "hex" => (gen_call.fn = "get_hex_shifts"
                                 /\ gen_call.spacing =
                                      IF last.sep = None THEN HEX_SPACING
                                      ELSE last.sep[1])

\* 'hex' called without sep has used HEX_SPACING
C7_Witness ==
    /\ Called /\ self.layout_name = "hex" /\ last.sep = None
    /\ gen_call.spacing = HEX_SPACING

\* C8: a constructed Layout other than 'pair' has made exactly one call to
\* the geometry provider, the variant chosen by simple_coadd_bbox, with the
\* caller's coadd_dim, pixel_scale and world_origin; a 'pair' Layout has made
\* none and holds only pixel_scale and layout_name.
C8_Geometry ==
    Constructed
    => IF self.layout_name = "pair"
       THEN provider_calls = <<>> /\ DOMAIN self = {"pixel_scale", "layout_name"}
       ELSE /\ Len(provider_calls) = 1
            /\ provider_calls[1].fn = (IF args.simple_coadd_bbox
                                       THEN "make_coadd_dm_wcs_simple"
                                       ELSE "make_coadd_dm_wcs")
            /\ provider_calls[1].coadd_dim = args.coadd_dim
            /\ provider_calls[1].pixel_scale = args.pixel_scale
            /\ "world_origin" \in DOMAIN provider_calls[1]
            /\ provider_calls[1].world_origin = args.world_origin

\* C9: get_shifts with density # 0 on a 'random' or 'random_disk' Layout of
\* positive area makes exactly one Poisson draw, of mean max(area * density, 1)
\* (the larger of the two, so never below 1), and asks the generator for
\* exactly the drawn number of points.
C9_PoissonMean ==
    (Called /\ self.layout_name \in RandomKinds /\ ~nonpositive(self.area)
        /\ last.density # 0)
    => LET prod == times(self.area, last.density)
           lam == last.poisson[1].lam
       IN  /\ last.exc = "none"
           /\ Len(last.poisson) = 1
           /\ lam \in {prod, One}
           /\ ~lt_one(lam)
           /\ lam = One => (lt_one(prod) \/ prod = One)
           /\ Len(last.gen_calls) = 1
           /\ gen_call.size = last.poisson[1].value

\* a negative density: the mean is 1 all the same, and objects were drawn
C9_Witness ==
    /\ Called /\ self.layout_name = "random" /\ ~nonpositive(self.area)
    /\ last.density < 0 /\ last.exc = "none"
    /\ last.poisson[1].lam = One /\ gen_call.size > 0

\* C10: a get_shifts call that raises has taken no draw from the random
\* source, called no generator, returned nothing and left the random source
\* and the object as they were; it raises MissingParameter exactly for 'pair'
\* without sep and InvalidGeometry exactly for 'random' / 'random_disk' of
\* area <= 0.
C10_FailAtomic ==
    Called
    => /\ last.exc # "none"
          => (/\ rng = last.rng_before
              /\ last.poisson = <<>>
              /\ last.gen_calls = <<>>
              /\ last.ret = None
              /\ self = last.self_before)
       /\ last.exc = "MissingParameter"
          <=> (self.layout_name = "pair" /\ last.sep = None)
       /\ last.exc = "InvalidGeometry"
          <=> (self.layout_name \in RandomKinds /\ nonpositive(self.area))
       /\ last.exc \in {"none", "MissingParameter", "InvalidGeometry"}

\* a 'random' Layout of area 0 has raised, the random source having served
\* a request before the call
C10_Witness ==
    /\ Called /\ self.layout_name = "random" /\ last.exc = "InvalidGeometry"
    /\ last.rng_before > 0

====
